---- MODULE Spec2Model ----
(***************************************************************************)
(* Model of BBS_Tool.py: the bar bending schedule window (MainWindow), its *)
(* input widgets, the compute_bbs and export_excel handlers and the        *)
(* formula helpers.                                                        *)
(*                                                                         *)
(* Numbers.  Every length, multiplier and diameter is held in quarters of  *)
(* a unit (FP(230) = 920 stands for 230.0).  The inputs used are whole or  *)
(* half units, so every sum and every product of two inputs is a whole     *)
(* number of quarters and the arithmetic below is exact; the same values   *)
(* are dyadic, hence exact in the program's binary floating point too.     *)
(* Quotients (x/1000.0, dia*dia/162.0) are kept as exact fractions         *)
(* [n |-> numerator, d |-> denominator]; Python's round() is modelled as   *)
(* round-half-to-even on that exact value.  That is what the program       *)
(* computes except where the exact value is a decimal tie (DecimalTie):    *)
(* SpecF leaves such inputs out, Spec and SpecPair never meet one.         *)
(*                                                                         *)
(* Status bar messages, message boxes and the table view's geometry are    *)
(* not part of the state.  ev (the handler that ran last) and probe are    *)
(* history variables.                                                      *)
(***************************************************************************)
EXTENDS Integers, Sequences, FiniteSets, TLC

VARIABLES cmb_member, sp, shown, df, written, ev, probe

vars == <<cmb_member, sp, shown, df, written, ev, probe>>

\* ---------------------------------------------------------------- numbers
FP(x) == 4 * x

\* product of two fixed-point values (exact for whole and half units)
Mul(x, y) == (x * y) \div 4

Frac(num, den) == [n |-> num, d |-> den]

Pow10(k) == CASE k = 0 -> 1 [] k = 1 -> 10 [] k = 2 -> 100 [] OTHER -> 1000

\* nearest integer to num/den (den > 0), ties to the even neighbour
RoundHalfEven(num, den) ==
    LET q == num \div den
        r == num % den
    IN  IF 2 * r < den THEN q
        ELSE IF 2 * r > den THEN q + 1
        ELSE IF q % 2 = 0 THEN q ELSE q + 1

\* x * 10^k as a fraction
Scaled(x, k) ==
    IF x.d % Pow10(k) = 0
    THEN Frac(x.n, x.d \div Pow10(k))
    ELSE Frac(x.n * Pow10(k), x.d)

\* round(x, k) of a fraction x, as an integer count of 10^-k
round(x, k) == RoundHalfEven(Scaled(x, k).n, Scaled(x, k).d)

\* x lies exactly half way between two k-decimal values.  For k > 0 the
\* program's double nearest to x is not x, and round() returns the neighbour
\* on that double's side: such inputs are outside what this model computes.
DecimalTie(x, k) == 2 * (Scaled(x, k).n % Scaled(x, k).d) = Scaled(x, k).d

Max(x, y) == IF x >= y THEN x ELSE y

Min(x, y) == IF x <= y THEN x ELSE y

\* ---------------------------------------------------------------- helpers
\* (dia_mm * dia_mm) / 162.0, in kg/m
steel_unit_weight_mm(dia_mm) == Frac(dia_mm * dia_mm, 16 * 162)

\* mutant: the effective sides clamped at zero
ties_cutting_length_clamped(a_clear, b_clear, cover, dia, hook_mult, bend_ded_mult) ==
    LET a == Max(0, a_clear + 2 * cover - dia)
        b == Max(0, b_clear + 2 * cover - dia)
        base == 2 * (a + b)
        L_hooks == 2 * Mul(hook_mult, dia)
        L_bend_ded == 4 * Mul(bend_ded_mult, dia)
    IN  base + L_hooks - L_bend_ded

ties_cutting_length(a_clear, b_clear, cover, dia, hook_mult, bend_ded_mult) ==
    LET a == a_clear + 2 * cover - dia
        b == b_clear + 2 * cover - dia
        base == 2 * (a + b)
        L_hooks == 2 * Mul(hook_mult, dia)
        L_bend_ded == 4 * Mul(bend_ded_mult, dia)
    IN  base + L_hooks - L_bend_ded

\* mutant: the bar shortened by its diameter at each end
beam_main_length_dia(clear_span, cover, dia, dev_len) ==
    clear_span + 2 * (cover + dev_len) - 2 * dia

beam_main_length(clear_span, cover, dia, dev_len) ==
    clear_span + 2 * (cover + dev_len)

\* mutant: the cover counted once
column_longitudinal_length_one_cover(height_clear, cover, dia, lap_len) ==
    height_clear + cover + lap_len

column_longitudinal_length(height_clear, cover, dia, lap_len) ==
    height_clear + 2 * cover + lap_len

\* ---------------------------------------------------------------- widgets
Members == {"Ties/Stirrups", "Beam (simple)", "Column (basic)"}

Doubles == {"cover", "dia", "a", "b", "pitch", "height", "hook_mult", "bend_mult",
            "span", "dev", "col_h", "lap"}

Counts == {"n_main", "n_vert"}

\* setRange of every spin box; counts are plain integers
Lo(w) ==
    CASE w = "dia" -> FP(4) [] w = "pitch" -> FP(10) [] w = "hook_mult" -> FP(4)
      [] w = "n_main" -> 1 [] w = "n_vert" -> 2 [] OTHER -> 0

Hi(w) ==
    CASE w = "cover" -> FP(1000) [] w = "dia" -> FP(40) [] w = "pitch" -> FP(1000)
      [] w = "hook_mult" -> FP(20) [] w = "bend_mult" -> FP(10)
      [] w = "dev" -> FP(5000) [] w = "lap" -> FP(5000)
      [] w = "n_main" -> 20 [] w = "n_vert" -> 40 [] OTHER -> FP(100000)

\* setValue of every spin box in _build_ui
Defaults ==
    [cover |-> FP(25), dia |-> FP(8), a |-> FP(230), b |-> FP(300),
     pitch |-> FP(150), height |-> FP(3000), hook_mult |-> FP(10), bend_mult |-> FP(2),
     span |-> FP(4000), dev |-> FP(200), n_main |-> 2,
     col_h |-> FP(3000), lap |-> FP(200), n_vert |-> 8]

\* the group of rows _toggle_groups shows for a member
Group(m) ==
    CASE m = "Ties/Stirrups" -> "ties" [] m = "Beam (simple)" -> "beam" [] OTHER -> "col"

\* QAbstractSpinBox keeps a value set on it inside the widget's range
Clamp(w, v) == Max(Lo(w), Min(Hi(w), v))

\* ---------------------------------------------------------------- compute
FracMul(x, y) == Frac(x.n * y.n, x.d * y.d)

\* mutant: the total weight taken from the rounded length and unit weight
Row_compound(mark, label, dia, n, spacing, L, total_len_m, unit_wt, total_wt, shape) ==
    [Mark |-> mark, Member |-> label, Bar |-> dia, No |-> n, Spacing |-> spacing,
     CutLength |-> round(Frac(L, 4), 0), TotalLength |-> round(total_len_m, 2),
     UnitWt |-> round(unit_wt, 3),
     TotalWt |-> RoundHalfEven(round(total_len_m, 2) * round(unit_wt, 3), 1000),
     Shape |-> shape]

\* the ten columns of one rows.append({...}); Spacing is <<pitch>> or <<>> ("")
Row(mark, label, dia, n, spacing, L, total_len_m, unit_wt, total_wt, shape) ==
    [Mark |-> mark, Member |-> label, Bar |-> dia, No |-> n, Spacing |-> spacing,
     CutLength |-> round(Frac(L, 4), 0), TotalLength |-> round(total_len_m, 2),
     UnitWt |-> round(unit_wt, 3), TotalWt |-> round(total_wt, 2), Shape |-> shape]

\* mutant: the stirrup at the start of the member not counted
ties_count_no_first(height, pitch) == Max(1, height \div pitch)

\* int(max(1, int(height // pitch) + 1))
ties_count(height, pitch) == Max(1, (height \div pitch) + 1)

\* (L/1000.0) * n, in metres
total_length(L, n) == Frac(L * n, 4 * 1000)

TiesRows(s) ==
    LET unit_wt == steel_unit_weight_mm(s.dia)
        n == ties_count(s.height, s.pitch)
        CL == ties_cutting_length(s.a, s.b, s.cover, s.dia, s.hook_mult, s.bend_mult)
        total_len_m == total_length(CL, n)
        total_wt == FracMul(total_len_m, unit_wt)
    IN  <<Row("ST", "Stirrups/Ties", s.dia, n, <<s.pitch>>, CL, total_len_m,
              unit_wt, total_wt, "Rect with hooks")>>

\* mutant: the Ties pitch copied into a Beam row
BeamRows_pitch(s) ==
    LET unit_wt == steel_unit_weight_mm(s.dia)
        L == beam_main_length(s.span, s.cover, s.dia, s.dev)
        total_len_m == total_length(L, s.n_main)
        total_wt == FracMul(total_len_m, unit_wt)
    IN  <<Row("BM", "Beam", s.dia, s.n_main, <<s.pitch>>, L, total_len_m,
              unit_wt, total_wt, "Straight + dev @ ends")>>

BeamRows(s) ==
    LET unit_wt == steel_unit_weight_mm(s.dia)
        L == beam_main_length(s.span, s.cover, s.dia, s.dev)
        total_len_m == total_length(L, s.n_main)
        total_wt == FracMul(total_len_m, unit_wt)
    IN  <<Row("BM", "Beam", s.dia, s.n_main, <<>>, L, total_len_m,
              unit_wt, total_wt, "Straight + dev @ ends")>>

ColumnRows(s) ==
    LET unit_wt == steel_unit_weight_mm(s.dia)
        L == column_longitudinal_length(s.col_h, s.cover, s.dia, s.lap)
        total_len_m == total_length(L, s.n_vert)
        total_wt == FracMul(total_len_m, unit_wt)
    IN  <<Row("CL", "Column", s.dia, s.n_vert, <<>>, L, total_len_m,
              unit_wt, total_wt, "Straight + lap")>>

\* the rows list built by the if / elif chain of compute_bbs
BuildRows(member, s) ==
    CASE member = "Ties/Stirrups" -> TiesRows(s)
      [] member = "Beam (simple)" -> BeamRows(s)
      [] member = "Column (basic)" -> ColumnRows(s)
      [] OTHER -> <<>>

\* the cut length and bar count compute_bbs derives for a request
CutOf(member, s) ==
    CASE member = "Ties/Stirrups" ->
             ties_cutting_length(s.a, s.b, s.cover, s.dia, s.hook_mult, s.bend_mult)
      [] member = "Beam (simple)" -> beam_main_length(s.span, s.cover, s.dia, s.dev)
      [] OTHER -> column_longitudinal_length(s.col_h, s.cover, s.dia, s.lap)

CountOf(member, s) ==
    CASE member = "Ties/Stirrups" -> ties_count(s.height, s.pitch)
      [] member = "Beam (simple)" -> s.n_main
      [] OTHER -> s.n_vert

\* one of the row's round(.., 2) or round(.., 3) calls meets a decimal tie
HitsDecimalTie(member, s) ==
    LET total_len_m == total_length(CutOf(member, s), CountOf(member, s))
        unit_wt == steel_unit_weight_mm(s.dia)
    IN  \/ DecimalTie(total_len_m, 2)
        \/ DecimalTie(unit_wt, 3)
        \/ DecimalTie(FracMul(total_len_m, unit_wt), 2)

\* the only exception the try block can meet: height // 0.0
Raises(member, s) == member = "Ties/Stirrups" /\ s.pitch = 0

\* ---------------------------------------------------------------- state
Init ==
    /\ cmb_member = "Ties/Stirrups"
    /\ sp = Defaults
    /\ shown = Group(cmb_member)
    /\ df = <<>>
    /\ written = <<>>
    /\ ev = "none"
    /\ probe = <<>>

\* values a user types into a spin box (some outside its range)
EditVals(w) ==
    CASE w = "cover" -> {FP(25), FP(40)}
      [] w = "pitch" -> {FP(150), FP(100)}
      [] w = "n_main" -> {2, 0}
      [] OTHER -> {Defaults[w]}

setValue ==
    \E w \in Doubles \cup Counts : \E v \in EditVals(w) :
        /\ sp' = [sp EXCEPT ![w] = Clamp(w, v)]
        /\ ev' = "input"
        /\ UNCHANGED <<cmb_member, shown, df, written, probe>>

\* cmb_member.currentTextChanged -> _toggle_groups
toggle_groups ==
    \E m \in Members :
        /\ cmb_member' = m
        /\ shown' = Group(m)
        /\ ev' = "input"
        /\ UNCHANGED <<sp, df, written, probe>>

\* mutant: the new rows appended to the table held
compute_bbs_append(mark) ==
    /\ df' = IF Raises(cmb_member, sp) THEN df ELSE df \o BuildRows(cmb_member, sp)
    /\ ev' = "compute_bbs"
    /\ probe' = IF mark /\ probe = <<>>
                THEN <<[member |-> cmb_member, sp |-> sp, df |-> df']>>
                ELSE probe
    /\ UNCHANGED <<cmb_member, sp, shown, written>>

\* mutant: a table already held is kept
compute_bbs_keep(mark) ==
    /\ df' = IF Raises(cmb_member, sp) \/ df # <<>> THEN df ELSE BuildRows(cmb_member, sp)
    /\ ev' = "compute_bbs"
    /\ probe' = IF mark /\ probe = <<>>
                THEN <<[member |-> cmb_member, sp |-> sp, df |-> df']>>
                ELSE probe
    /\ UNCHANGED <<cmb_member, sp, shown, written>>

\* probe is a history variable: when mark is set and nothing is marked yet,
\* it keeps this request and the table it produced
compute_bbs(mark) ==
    /\ df' = IF Raises(cmb_member, sp) THEN df ELSE BuildRows(cmb_member, sp)
    /\ ev' = "compute_bbs"
    /\ probe' = IF mark /\ probe = <<>>
                THEN <<[member |-> cmb_member, sp |-> sp, df |-> df']>>
                ELSE probe
    /\ UNCHANGED <<cmb_member, sp, shown, written>>

\* mutant: the empty table exported too
export_excel_unguarded ==
    \E path \in {"", "BBS_Output.xlsx"}, has_template \in BOOLEAN, io_ok \in BOOLEAN :
        /\ ev' = "export_excel"
        /\ written' = IF path = "" \/ ~io_ok
                      THEN written
                      ELSE <<[template |-> has_template, records |-> df]>>
        /\ UNCHANGED <<cmb_member, sp, shown, df, probe>>

\* written is the workbook saved by the last successful export
export_excel ==
    \E path \in {"", "BBS_Output.xlsx"}, has_template \in BOOLEAN, io_ok \in BOOLEAN :
        /\ ev' = "export_excel"
        /\ written' = IF df = <<>> \/ path = "" \/ ~io_ok
                      THEN written
                      ELSE <<[template |-> has_template, records |-> df]>>
        /\ UNCHANGED <<cmb_member, sp, shown, df, probe>>

Next ==
    \/ setValue
    \/ toggle_groups
    \/ compute_bbs(FALSE)
    \/ export_excel

Spec == Init /\ [][Next]_vars

NextPair ==
    \/ setValue
    \/ toggle_groups
    \/ \E mark \in BOOLEAN : compute_bbs(mark)
    \/ export_excel

SpecPair == Init /\ [][NextPair]_vars

\* ------------------------------------------------- one request, any inputs
\* The window as the user may have left it before the first Compute: the
\* common widgets and the widgets of the selected member hold any of the
\* values below, the hidden widgets their defaults.
HeightSteps == 2

MaxBars == 3

CoverVals == {FP(0), FP(25), FP(40), FP(60)}

DiaVals == {FP(8), FP(8) + 2, FP(16)}

SideVals == {FP(0), FP(100), FP(230), FP(230) + 2}

HeightVals == {k * FP(1500) : k \in 0..HeightSteps} \cup {FP(100) + 2}

PitchVals == {FP(100), FP(150), FP(150) + 2}

HookVals == {FP(4), FP(10), FP(10) + 2}

BendVals == {FP(0), FP(2), FP(10)}

SpanVals == {FP(0), FP(4000), FP(4000) + 2}

LapVals == {FP(0), FP(200), FP(800)}

InitTies ==
    \E c \in CoverVals, d \in DiaVals, a \in SideVals, b \in {FP(0), FP(300)},
       h \in HeightVals, p \in PitchVals, hm \in HookVals, bm \in BendVals :
        /\ cmb_member = "Ties/Stirrups"
        /\ sp = [Defaults EXCEPT !.cover = c, !.dia = d, !.a = a, !.b = b, !.height = h,
                                 !.pitch = p, !.hook_mult = hm, !.bend_mult = bm]

InitBeam ==
    \E c \in CoverVals, d \in DiaVals, s \in SpanVals, dv \in LapVals, n \in 1..MaxBars :
        /\ cmb_member = "Beam (simple)"
        /\ sp = [Defaults EXCEPT !.cover = c, !.dia = d, !.span = s, !.dev = dv, !.n_main = n]

InitColumn ==
    \E c \in CoverVals, d \in DiaVals, h \in HeightVals, l \in LapVals, n \in 2..(MaxBars + 1) :
        /\ cmb_member = "Column (basic)"
        /\ sp = [Defaults EXCEPT !.cover = c, !.dia = d, !.col_h = h, !.lap = l, !.n_vert = n]

InitF ==
    /\ InitTies \/ InitBeam \/ InitColumn
    /\ ~HitsDecimalTie(cmb_member, sp)
    /\ shown = Group(cmb_member)
    /\ df = <<>>
    /\ written = <<>>
    /\ ev = "none"
    /\ probe = <<>>

NextF ==
    \/ compute_bbs(FALSE)
    \/ export_excel

SpecF == InitF /\ [][NextF]_vars

\* no request the window can make under Spec or SpecPair meets a decimal tie
NoDecimalTie == ~HitsDecimalTie(cmb_member, sp)

\* ================================================================= claims
Abs(x) == IF x < 0 THEN -x ELSE x

Columns == {"Mark", "Member", "Bar", "No", "Spacing", "CutLength", "TotalLength",
            "UnitWt", "TotalWt", "Shape"}

MarkOf(member) ==
    CASE member = "Ties/Stirrups" -> "ST" [] member = "Beam (simple)" -> "BM" [] OTHER -> "CL"

\* C1: the table is always the initial empty one or exactly one row; a step
\* that ends a compute request leaves exactly the one row of that request
\* (all ten columns, the mark and diameter of the request) whatever the table
\* held before, and no other step changes the table.
C1_OneRowOfLatestRequest ==
    /\ [](Len(df) <= 1)
    /\ [][ /\ ev' = "compute_bbs" =>
                /\ Len(df') = 1
                /\ DOMAIN df'[1] = Columns
                /\ df'[1].Mark = MarkOf(cmb_member')
                /\ df' = BuildRows(cmb_member', sp')
           /\ ev' # "compute_bbs" => df' = df ]_vars

\* a Beam row is held although a Ties table was computed (and exported) before
C1_Witness ==
    /\ ev = "compute_bbs"
    /\ Len(df) = 1 /\ df[1].Mark = "BM"
    /\ written # <<>> /\ written[1].records[1].Mark = "ST"

\* C2: after a Ties request with height >= 0 and pitch > 0 the row's count n
\* is max(1, floor(height/pitch) + 1): n >= 1 and (n-1)*pitch <= height <
\* n*pitch; height 0 gives 1.
C2_TiesBarCount ==
    (df # <<>> /\ cmb_member = "Ties/Stirrups" /\ sp.height >= 0 /\ sp.pitch > 0) =>
        LET n == df[1].No
        IN  /\ n >= 1
            /\ (n - 1) * sp.pitch <= sp.height
            /\ sp.height < n * sp.pitch
            /\ (sp.height = 0 => n = 1)

\* height 3000 at pitch 150 gives 21 bars
C2_Witness ==
    /\ ev = "compute_bbs" /\ cmb_member = "Ties/Stirrups"
    /\ sp.height = FP(3000) /\ sp.pitch = FP(150)
    /\ df[1].No = 21

\* 16 * (2*((a + 2c - d) + (b + 2c - d)) + 2*h*d - 4*m*d), from quarter units
TiesClosedForm16(a, b, c, d, h, m) ==
    4 * (2 * ((a + 2 * c - d) + (b + 2 * c - d))) + 2 * h * d - 4 * m * d

\* the inputs of the worked Ties example: 230, 300, cover 25, dia 8, hook 10, bend 2
TiesExample ==
    /\ sp.a = FP(230) /\ sp.b = FP(300) /\ sp.cover = FP(25) /\ sp.dia = FP(8)
    /\ sp.hook_mult = FP(10) /\ sp.bend_mult = FP(2)

\* C3: ties_cutting_length is 2*((a+2c-d)+(b+2c-d)) + 2*hook*d - 4*bend*d for
\* every input, negative effective sides included; changing only the hook
\* multiplier changes it by 2*d per unit, only the bend multiplier by -4*d per
\* unit; the row's cut length is that value to the nearest millimetre; the
\* worked example (230, 300, 25, 8, 10, 2) gives 1324.
C3_TiesCuttingLength ==
    (df # <<>> /\ cmb_member = "Ties/Stirrups") =>
        LET CL == ties_cutting_length(sp.a, sp.b, sp.cover, sp.dia, sp.hook_mult, sp.bend_mult)
        IN  /\ 4 * CL = TiesClosedForm16(sp.a, sp.b, sp.cover, sp.dia, sp.hook_mult, sp.bend_mult)
            /\ \A h2 \in HookVals :
                 4 * (ties_cutting_length(sp.a, sp.b, sp.cover, sp.dia, h2, sp.bend_mult) - CL)
                   = 2 * sp.dia * (h2 - sp.hook_mult)
            /\ \A m2 \in BendVals :
                 4 * (ties_cutting_length(sp.a, sp.b, sp.cover, sp.dia, sp.hook_mult, m2) - CL)
                   = -4 * sp.dia * (m2 - sp.bend_mult)
            /\ 2 * Abs(4 * df[1].CutLength - CL) <= 4
            /\ (TiesExample => CL = FP(1324))

\* the worked example has been computed
C3_Witness ==
    /\ ev = "compute_bbs" /\ cmb_member = "Ties/Stirrups"
    /\ TiesExample
    /\ df[1].CutLength = 1324

\* C3 as stated: the worked example (230, 300, 25, 8, 10, 2) gives 1504
C3_ExampleAsStated ==
    (df # <<>> /\ cmb_member = "Ties/Stirrups" /\ TiesExample) =>
        /\ ties_cutting_length(sp.a, sp.b, sp.cover, sp.dia, sp.hook_mult, sp.bend_mult)
             = FP(1504)
        /\ df[1].CutLength = 1504

\* C4: after a Beam request the cut length is span + 2*(cover + dev) for every
\* bar diameter, the row holds it to the nearest millimetre, and the row's
\* count is the given number of main bars.
C4_BeamLengthAndCount ==
    (df # <<>> /\ cmb_member = "Beam (simple)") =>
        /\ \A d \in DiaVals :
             beam_main_length(sp.span, sp.cover, d, sp.dev) = sp.span + 2 * (sp.cover + sp.dev)
        /\ 2 * Abs(4 * df[1].CutLength - (sp.span + 2 * (sp.cover + sp.dev))) <= 4
        /\ df[1].No = sp.n_main
        /\ df[1].Mark = "BM"

\* span 4000, cover 25, dev 200 gives 4450 (here with 16 mm bars)
C4_Witness ==
    /\ ev = "compute_bbs" /\ cmb_member = "Beam (simple)"
    /\ sp.span = FP(4000) /\ sp.cover = FP(25) /\ sp.dev = FP(200) /\ sp.dia = FP(16)
    /\ df[1].CutLength = 4450 /\ df[1].No = sp.n_main

\* C5: after a Column request the cut length is height + 2*cover + lap for
\* every bar diameter, the row holds it to the nearest millimetre, and the
\* row's count is the given number of vertical bars.
C5_ColumnLengthAndCount ==
    (df # <<>> /\ cmb_member = "Column (basic)") =>
        /\ \A d \in DiaVals :
             column_longitudinal_length(sp.col_h, sp.cover, d, sp.lap)
               = sp.col_h + 2 * sp.cover + sp.lap
        /\ 2 * Abs(4 * df[1].CutLength - (sp.col_h + 2 * sp.cover + sp.lap)) <= 4
        /\ df[1].No = sp.n_vert
        /\ df[1].Mark = "CL"

\* height 3000, cover 40, lap 800 gives 3880
C5_Witness ==
    /\ ev = "compute_bbs" /\ cmb_member = "Column (basic)"
    /\ sp.col_h = FP(3000) /\ sp.cover = FP(40) /\ sp.lap = FP(800)
    /\ df[1].CutLength = 3880 /\ df[1].No = sp.n_vert

C7_GeometryRejected ==
    /\ (ev = "compute_bbs" /\ cmb_member = "Ties/Stirrups"
          /\ \/ sp.a + 2 * sp.cover - sp.dia <= 0
             \/ sp.b + 2 * sp.cover - sp.dia <= 0
             \/ CutOf(cmb_member, sp) <= 0)
       => df = <<>>
    /\ \A i \in 1..Len(df) : df[i].CutLength > 0

\* the widgets a request of this member is documented to read
Relevant(member) ==
    {"cover", "dia"} \cup
    CASE member = "Ties/Stirrups" -> {"a", "b", "height", "pitch", "hook_mult", "bend_mult"}
      [] member = "Beam (simple)" -> {"span", "dev", "n_main"}
      [] OTHER -> {"col_h", "lap", "n_vert"}

\* the request just computed has the member of the marked earlier request
SameMemberAsProbe ==
    /\ probe # <<>>
    /\ ev = "compute_bbs"
    /\ probe[1].member = cmb_member

\* C8: a request that has the member type of an earlier request and agrees
\* with it on cover, diameter and the fields of that member produces a table
\* equal to the earlier one field for field, whatever the fields of the other
\* members hold; a row carries a spacing exactly when it is a Ties row.
C8_OnlyActiveFieldsRead ==
    /\ (SameMemberAsProbe /\ \A w \in Relevant(cmb_member) : probe[1].sp[w] = sp[w])
         => df = probe[1].df
    /\ \A i \in 1..Len(df) : (df[i].Spacing # <<>>) <=> (df[i].Mark = "ST")

\* two Beam requests that differ in a Ties field (pitch) and in nothing Beam reads
C8_Witness ==
    /\ SameMemberAsProbe
    /\ cmb_member = "Beam (simple)"
    /\ \A w \in Relevant(cmb_member) : probe[1].sp[w] = sp[w]
    /\ probe[1].sp.pitch # sp.pitch
    /\ df = probe[1].df /\ df # <<>>

\* C9: a request with the member type and the inputs of an earlier request
\* produces a table equal to the earlier one field for field, whatever was
\* computed or exported in between.
C9_SameRequestSameRows ==
    (SameMemberAsProbe /\ probe[1].sp = sp) => df = probe[1].df

\* the marked request is repeated after another table was computed and exported
C9_Witness ==
    /\ SameMemberAsProbe /\ probe[1].sp = sp
    /\ df = probe[1].df /\ df # <<>>
    /\ written # <<>> /\ written[1].records # df

\* C10: an export step never changes the table; when it writes a workbook the
\* table is not empty and the records written are its rows in order; on an
\* empty table it writes nothing and changes no widget; so a workbook exists
\* only once a compute has filled the table.
C10_ExportWritesHeldRows ==
    /\ [](written # <<>> => (df # <<>> /\ written[1].records # <<>>))
    /\ [][ ev' = "export_excel" =>
             /\ df' = df
             /\ written' # written => (df # <<>> /\ written'[1].records = df)
             /\ df = <<>> => UNCHANGED <<written, sp, cmb_member, shown>> ]_vars

\* a workbook holds the Column row computed after the member was changed
C10_Witness ==
    /\ ev = "export_excel"
    /\ written # <<>> /\ written[1].records = df
    /\ Len(df) = 1 /\ df[1].Mark = "CL"

====
